---- MODULE Spec2Model ----
(***************************************************************************)
(* A model of envi2.py: the ENVI header parser and writer, the cube layout *)
(* codec (bytes_to_cube, cube_to_bytes), normalize_envi_cube and the two   *)
(* readers read_envi and read_zipped_envi.                                 *)
(*                                                                         *)
(* Python values are tagged records [t |-> type, v |-> payload]; a str is  *)
(* a sequence of one-character strings; a dict is its insertion-ordered    *)
(* key list with the key -> value function; a numpy array is its dtype,    *)
(* its shape and its elements by 0-based index tuple, an element being the *)
(* bit pattern of the sample, most significant byte first.                 *)
(*                                                                         *)
(* A call returns [ok |-> TRUE, ...] or [ok |-> FALSE, error |-> kind].    *)
(* The kind of a ValueError / FileNotFoundError the code raises on purpose *)
(* is named after the raise site: "ParseError" (lines 179, 215, 232),      *)
(* "MissingDataFile" (76, 94), "UnknownFormat" (263, 278, 303, 356),       *)
(* "UnsupportedDType" (60, 346), "UnsupportedValue" (129, 136); the        *)
(* ValueError numpy raises in frombuffer/reshape is "SizeMismatch".  An    *)
(* exception the interpreter raises on its own keeps its Python name:      *)
(* "IndexError", "TypeError", "AttributeError", "KeyError".                *)
(***************************************************************************)
EXTENDS Integers, Sequences, FiniteSets, TLC

VARIABLES
    sysByteorder,   \* sys.byteorder of the interpreter: "little" or "big"
    cube,           \* the array a caller passes (cube_to_bytes, write_envi,
                    \* normalize_envi_cube) or a file holds (bytes_to_cube)
    callerHeader,   \* the dict a caller passes with it
    wavelengths,    \* the wavelengths a caller passes to write_envi
    enc,            \* what cube_to_bytes returned
    decIn,          \* the (header, bytes) handed to bytes_to_cube
    dec,            \* what bytes_to_cube returned
    norm,           \* what normalize_envi_cube returned
    text,           \* the text handed to parse_envi_header
    parsed,         \* what parse_envi_header returned
    fs,             \* the header file and its siblings .raw, .dat, .img (on
                    \* disk, or as the entries of an archive)
    wr,             \* what write_envi returned
    rd              \* what read_envi or read_zipped_envi returned

vars == <<sysByteorder, cube, callerHeader, wavelengths, enc, decIn, dec, norm,
          text, parsed, fs, wr, rd>>

\* ------------------------------------------------------------------ bounds
MaxDim == 2
MaxSeed == 1

\* ------------------------------------------------------------ Python str
Upper == <<"A","B","C","D","E","F","G","H","I","J","K","L","M",
           "N","O","P","Q","R","S","T","U","V","W","X","Y","Z">>
Lower == <<"a","b","c","d","e","f","g","h","i","j","k","l","m",
           "n","o","p","q","r","s","t","u","v","w","x","y","z">>

LowerChar(c) ==
    IF \E i \in 1..26 : Upper[i] = c
    THEN Lower[CHOOSE i \in 1..26 : Upper[i] = c]
    ELSE c

\* str.lower()
StrLower(s) == [i \in 1..Len(s) |-> LowerChar(s[i])]

\* ----------------------------------------------------------- Python values
PyInt(n) == [t |-> "int", v |-> n]
\* A float is kept as the decimal it prints as: m * 10^-e, m not a multiple of
\* ten unless e = 0
PyFloat(m, e) == [t |-> "float", v |-> <<m, e>>]
PyStr(s) == [t |-> "str", v |-> s]
PyList(xs) == [t |-> "list", v |-> xs]
PyNone == [t |-> "None", v |-> 0]

\* An int too large for TLC's integers is kept as its decimal digits.
PyBigInt(digits) == [t |-> "int", digits |-> digits]

\* 2^bits - 1, the int np.iinfo(dtype).max returns
PyIntPow2m1(bits) ==
    CASE bits = 8 -> PyInt(255)
      [] bits = 15 -> PyInt(32767)
      [] bits = 16 -> PyInt(65535)
      [] bits = 31 -> PyInt(2147483647)
      [] bits = 32 -> PyBigInt(<<"4","2","9","4","9","6","7","2","9","5">>)
      [] bits = 63 -> PyBigInt(<<"9","2","2","3","3","7","2","0","3","6","8","5","4","7","7","5","8","0","7">>)
      [] bits = 64 -> PyBigInt(<<"1","8","4","4","6","7","4","4","0","7","3","7","0","9","5","5","1","6","1","5">>)

\* x == n for a header value x and an int literal n
PyEqInt(x, n) ==
    \/ x.t = "int" /\ "v" \in DOMAIN x /\ x.v = n
    \/ x.t = "float" /\ x.v = <<n, 0>>

\* ------------------------------------------------------------ Python dict
EmptyDict == [keys |-> <<>>, at |-> <<>>]

DictHas(d, k) == k \in DOMAIN d.at

\* d[k] = v: a new key goes last, a known key keeps its place
DictSet(d, k, v) ==
    [keys |-> IF DictHas(d, k) THEN d.keys ELSE Append(d.keys, k),
     at   |-> [x \in (DOMAIN d.at) \cup {k} |-> IF x = k THEN v ELSE d.at[x]]]

Ok(x) == [ok |-> TRUE, value |-> x]
Err(kind) == [ok |-> FALSE, error |-> kind]

\* ------------------------------------------------------------ header keys
K_samples == <<"s","a","m","p","l","e","s">>
K_lines == <<"l","i","n","e","s">>
K_bands == <<"b","a","n","d","s">>
K_byte_order == <<"b","y","t","e"," ","o","r","d","e","r">>
K_data_type == <<"d","a","t","a"," ","t","y","p","e">>
K_interleave == <<"i","n","t","e","r","l","e","a","v","e">>
K_wavelength == <<"w","a","v","e","l","e","n","g","t","h">>
K_reflectance_scale_factor ==
    <<"r","e","f","l","e","c","t","a","n","c","e"," ",
      "s","c","a","l","e"," ","f","a","c","t","o","r">>
K_sensor_type == <<"s","e","n","s","o","r"," ","t","y","p","e">>
K_acquisition_time == <<"a","c","q","u","i","s","i","t","i","o","n"," ","t","i","m","e">>
K_data_gain_values == <<"d","a","t","a"," ","g","a","i","n"," ","v","a","l","u","e","s">>
K_fwhm == <<"f","w","h","m">>
K_senop_acquisition_mode == <<"s","e","n","o","p"," ","a","c","q","u","i","s","i","t","i","o","n"," ","m","o","d","e">>
K_senop_frame_counter == <<"s","e","n","o","p"," ","f","r","a","m","e"," ","c","o","u","n","t","e","r">>
K_senop_integration_time == <<"s","e","n","o","p"," ","i","n","t","e","g","r","a","t","i","o","n"," ","t","i","m","e">>
K_senop_order == <<"s","e","n","o","p"," ","o","r","d","e","r">>
K_senop_sequence_order == <<"s","e","n","o","p"," ","s","e","q","u","e","n","c","e"," ","o","r","d","e","r">>
K_senop_timestamp == <<"s","e","n","o","p"," ","t","i","m","e","s","t","a","m","p">>
K_senop_acceleration == <<"s","e","n","o","p"," ","a","c","c","e","l","e","r","a","t","i","o","n">>
K_senop_gyroscope == <<"s","e","n","o","p"," ","g","y","r","o","s","c","o","p","e">>
K_description == <<"d","e","s","c","r","i","p","t","i","o","n">>

S_bil == <<"b","i","l">>
S_bip == <<"b","i","p">>
S_bsq == <<"b","s","q">>
S_BSQ == <<"B","S","Q">>
S_BIL == <<"B","I","L">>
S_Bip == <<"B","i","p">>
S_xyz == <<"x","y","z">>

\* ------------------------------------------------------------ numpy dtypes
\* A dtype is [name, order]: order is "little" or "big", or "na" for the
\* one-byte types, whose byte order is not applicable.
ItemSize(name) ==
    CASE name \in {"uint8", "int8"} -> 1
      [] name \in {"uint16", "int16"} -> 2
      [] name \in {"uint32", "int32", "float32"} -> 4
      [] name \in {"uint64", "int64", "float64", "complex64"} -> 8
      [] name = "complex128" -> 16

\* A complex element is two floats, each with a byte order of its own.
Components(name) == IF name \in {"complex64", "complex128"} THEN 2 ELSE 1

DTypeNames == {"uint8", "int8", "uint16", "int16", "uint32", "int32", "float32",
               "uint64", "int64", "float64", "complex64", "complex128"}

DTypes ==
    {[name |-> n, order |-> o] :
        <<n, o>> \in {x \in DTypeNames \X {"little", "big", "na"} :
                        (x[2] = "na") <=> (ItemSize(x[1]) = 1)}}

\* dtype.byteorder: '=' native, '<' or '>' for the other order, '|' not applicable
DTypeByteorder(dt, sys) ==
    IF dt.order = "na" THEN "|"
    ELSE IF dt.order = sys THEN "="
    ELSE IF dt.order = "little" THEN "<" ELSE ">"

\* data.dtype == np.<name>: equal to the scalar type's dtype, which has the
\* interpreter's byte order
DTypeIs(dt, name, sys) == dt.name = name /\ dt.order \in {"na", sys}

\* The bytes of one element in memory: per component, most significant byte
\* first for "big", last for "little".
SwapComponents(e, name) ==
    LET w == Len(e) \div Components(name)
    IN  [i \in 1..Len(e) |-> e[((i - 1) \div w) * w + (w - ((i - 1) % w))]]

ElemMemory(e, dt) ==
    IF dt.order = "little" THEN SwapComponents(e, dt.name) ELSE e

\* ------------------------------------------------------------ numpy arrays
RECURSIVE Prod(_)
Prod(s) == IF s = <<>> THEN 1 ELSE Head(s) * Prod(Tail(s))

SeqMax(s) == CHOOSE m \in {s[i] : i \in 1..Len(s)} : \A j \in 1..Len(s) : s[j] <= m

\* The 0-based index tuples of an array of this shape
Indices(shape) ==
    {idx \in [1..Len(shape) -> 0..(SeqMax(shape) - 1)] :
        \A i \in 1..Len(shape) : idx[i] < shape[i]}

\* The place of an index in C order (last axis fastest) and in Fortran order
\* (first axis fastest)
RECURSIVE LinC(_, _)
LinC(idx, shape) ==
    IF idx = <<>> THEN 0
    ELSE Head(idx) * Prod(Tail(shape)) + LinC(Tail(idx), Tail(shape))

RECURSIVE LinF(_, _)
LinF(idx, shape) ==
    IF idx = <<>> THEN 0
    ELSE Head(idx) + Head(shape) * LinF(Tail(idx), Tail(shape))

Flat(a, order) ==
    LET I == Indices(a.shape)
    IN  [k \in 1..Prod(a.shape) |->
            a.at[CHOOSE idx \in I :
                    (IF order = "C" THEN LinC(idx, a.shape)
                                    ELSE LinF(idx, a.shape)) = k - 1]]

\* ndarray.reshape(shape, order=order): the elements read in that order and
\* placed in that order; a ValueError when the sizes differ
np_reshape(a, shape, order) ==
    IF Prod(shape) # Prod(a.shape) THEN Err("SizeMismatch")
    ELSE LET flat == Flat(a, order)
         IN  Ok([dtype |-> a.dtype, shape |-> shape,
                 at |-> [idx \in Indices(shape) |->
                            flat[(IF order = "C" THEN LinC(idx, shape)
                                                 ELSE LinF(idx, shape)) + 1]]])

SwapIdx(s, i, j) ==
    [k \in 1..Len(s) |-> IF k = i + 1 THEN s[j + 1]
                         ELSE IF k = j + 1 THEN s[i + 1] ELSE s[k]]

\* A mutant of np_swapaxes: the axes are left as they are.
np_swapaxes_none(a, i, j) == a

\* np.swapaxes(a, i, j), axes counted from 0
np_swapaxes(a, i, j) ==
    [dtype |-> a.dtype, shape |-> SwapIdx(a.shape, i, j),
     at |-> [idx \in Indices(SwapIdx(a.shape, i, j)) |-> a.at[SwapIdx(idx, i, j)]]]

RECURSIVE Concat(_)
Concat(ss) == IF ss = <<>> THEN <<>> ELSE Head(ss) \o Concat(Tail(ss))

\* ndarray.tobytes(order='C')
np_tobytes(a) ==
    LET flat == Flat(a, "C")
    IN  Concat([k \in 1..Len(flat) |-> ElemMemory(flat[k], a.dtype)])

\* A mutant of np_frombuffer: bytes past the last whole element are dropped.
np_frombuffer_floor(b, dt) ==
    LET w == ItemSize(dt.name)
    IN  Ok([dtype |-> dt, shape |-> <<Len(b) \div w>>,
            at |-> [idx \in {<<k>> : k \in 0..(Len(b) \div w - 1)} |->
                       ElemMemory(SubSeq(b, idx[1] * w + 1, idx[1] * w + w), dt)]])

\* np.frombuffer(b, dtype): a flat array; a ValueError when the buffer is not a
\* whole number of elements
np_frombuffer(b, dt) ==
    LET w == ItemSize(dt.name)
    IN  IF Len(b) % w # 0 THEN Err("SizeMismatch")
        ELSE Ok([dtype |-> dt, shape |-> <<Len(b) \div w>>,
                 at |-> [idx \in {<<k>> : k \in 0..(Len(b) \div w - 1)} |->
                            ElemMemory(SubSeq(b, idx[1] * w + 1, idx[1] * w + w), dt)]])

\* np.dtype(f'{byte_order}{data_type}'): 's2' and 's4' are no numpy type strings
NpDType(byte_order, data_type) ==
    LET o == IF byte_order = "<" THEN "little" ELSE "big"
    IN  CASE data_type = "u1" -> Ok([name |-> "uint8", order |-> "na"])
          [] data_type = "u2" -> Ok([name |-> "uint16", order |-> o])
          [] data_type = "f4" -> Ok([name |-> "float32", order |-> o])
          [] data_type = "f8" -> Ok([name |-> "float64", order |-> o])
          [] OTHER -> Err("TypeError")

\* ------------------------------------------------------------ bytes_to_cube
\* Lines 258-263: the numpy byte order character of header['byte order']
ByteOrderChar(header_byte_order) ==
    IF PyEqInt(header_byte_order, 0) THEN Ok("<")
    ELSE IF PyEqInt(header_byte_order, 1) THEN Ok(">")
    ELSE Err("UnknownFormat")

\* Lines 265-278: the numpy type string of header['data type']
DataTypeString(header_data_type) ==
    IF PyEqInt(header_data_type, 1) THEN Ok("u1")
    ELSE IF PyEqInt(header_data_type, 2) THEN Ok("s2")
    ELSE IF PyEqInt(header_data_type, 3) THEN Ok("s4")
    ELSE IF PyEqInt(header_data_type, 4) THEN Ok("f4")
    ELSE IF PyEqInt(header_data_type, 5) THEN Ok("f8")
    ELSE IF PyEqInt(header_data_type, 12) THEN Ok("u2")
    ELSE Err("UnknownFormat")

\* Lines 289-290: the BIL branch
BilView(data, rows, cols, bands) ==
    LET r1 == np_reshape(data, <<rows, cols * bands>>, "C")
    IN  IF ~r1.ok THEN r1 ELSE np_reshape(r1.value, <<rows, cols, bands>>, "F")

\* Lines 293-294: the BIP branch
BipView(data, rows, cols, bands) ==
    LET r1 == np_reshape(data, <<bands, rows * cols>>, "F")
    IN  IF ~r1.ok THEN r1 ELSE np_reshape(r1.value, <<bands, rows, cols>>, "C")

\* Lines 298-300: the BSQ branch
BsqView(data, rows, cols, bands) ==
    LET r1 == np_reshape(data, <<bands, rows, cols>>, "C")
    IN  IF ~r1.ok THEN r1
        ELSE Ok(np_swapaxes(np_swapaxes(r1.value, 0, 2), 0, 1))

\* Lines 287-303: the view of the flat data the header's interleave selects
InterleaveView(data, header_interleave, rows, cols, bands) ==
    IF header_interleave = S_bil THEN BilView(data, rows, cols, bands)
    ELSE IF header_interleave = S_bip THEN BipView(data, rows, cols, bands)
    ELSE IF header_interleave = S_bsq THEN BsqView(data, rows, cols, bands)
    ELSE Err("UnknownFormat")

bytes_to_cube(header, b) ==
    IF ~DictHas(header, K_byte_order) THEN Err("KeyError") ELSE
    LET byte_order == ByteOrderChar(header.at[K_byte_order]) IN
    IF ~byte_order.ok THEN byte_order ELSE
    IF ~DictHas(header, K_data_type) THEN Err("KeyError") ELSE
    LET data_type == DataTypeString(header.at[K_data_type]) IN
    IF ~data_type.ok THEN data_type ELSE
    LET dtype == NpDType(byte_order.value, data_type.value) IN
    IF ~dtype.ok THEN dtype ELSE
    IF ~(DictHas(header, K_lines) /\ DictHas(header, K_samples)
            /\ DictHas(header, K_bands)) THEN Err("KeyError") ELSE
    LET rows == header.at[K_lines].v
        cols == header.at[K_samples].v
        bands == header.at[K_bands].v
        data == np_frombuffer(b, dtype.value)
    IN
    IF ~data.ok THEN data ELSE
    IF ~DictHas(header, K_interleave) THEN Err("KeyError") ELSE
    IF header.at[K_interleave].t # "str" THEN Err("AttributeError") ELSE
    InterleaveView(data.value, StrLower(header.at[K_interleave].v), rows, cols, bands)

\* ------------------------------------------------------------ cube_to_bytes
\* Lines 310-346: <<data_type, reflectance_scale_factor>> of the cube's dtype
DataTypeCode(dt, sys) ==
    CASE DTypeIs(dt, "float32", sys) -> Ok(<<4, PyFloat(1, 0)>>)
      [] DTypeIs(dt, "float64", sys) -> Ok(<<5, PyFloat(1, 0)>>)
      [] DTypeIs(dt, "complex64", sys) -> Ok(<<9, PyFloat(1, 0)>>)
      [] DTypeIs(dt, "int16", sys) -> Ok(<<2, PyIntPow2m1(15)>>)
      [] DTypeIs(dt, "int32", sys) -> Ok(<<3, PyIntPow2m1(31)>>)
      [] DTypeIs(dt, "int64", sys) -> Ok(<<14, PyIntPow2m1(63)>>)
      [] DTypeIs(dt, "uint8", sys) -> Ok(<<1, PyIntPow2m1(8)>>)
      [] DTypeIs(dt, "uint16", sys) -> Ok(<<12, PyIntPow2m1(16)>>)
      [] DTypeIs(dt, "uint32", sys) -> Ok(<<13, PyIntPow2m1(32)>>)
      [] DTypeIs(dt, "uint64", sys) -> Ok(<<15, PyIntPow2m1(64)>>)
      [] OTHER -> Err("UnsupportedDType")

\* Lines 348-356: header['byte order'] of the cube's dtype
EncByteOrder(dt, sys) ==
    LET c == DTypeByteorder(dt, sys)
    IN  CASE c = "=" -> Ok(IF sys = "little" THEN 0 ELSE 1)
          [] c = "<" -> Ok(0)
          [] c = ">" -> Ok(1)
          [] OTHER -> Err("UnknownFormat")

\* Lines 358-364: the fields the encoder sets in its copy of the header
EncHeader(header, data, byteorder, data_type, reflectance_scale_factor) ==
    LET h1 == DictSet(header, K_samples, PyInt(data.shape[2]))
        h2 == DictSet(h1, K_lines, PyInt(data.shape[1]))
        h3 == DictSet(h2, K_bands, PyInt(data.shape[3]))
        h4 == DictSet(h3, K_byte_order, PyInt(byteorder))
        h5 == DictSet(h4, K_data_type, PyInt(data_type))
        h6 == DictSet(h5, K_interleave, PyStr(S_BSQ))
    IN  DictSet(h6, K_reflectance_scale_factor, reflectance_scale_factor)

\* Lines 366-369: the cube's bytes, band-sequential
EncBytes(data) == np_tobytes(np_swapaxes(np_swapaxes(data, 0, 1), 0, 2))

\* Line 309: the encoder works on a deep copy, so the caller's dict is after
\* the call what it was before, whatever was set in the local one
CallerHeaderAfter(header, local) == header

\* cube_to_bytes(header, data): caller is the caller's dict once the call is over
cube_to_bytes(header, data, sys) ==
    LET dc == DataTypeCode(data.dtype, sys) IN
    IF ~dc.ok THEN [ok |-> FALSE, error |-> dc.error, caller |-> header] ELSE
    LET bo == EncByteOrder(data.dtype, sys) IN
    IF ~bo.ok THEN [ok |-> FALSE, error |-> bo.error, caller |-> header] ELSE
    LET local == EncHeader(header, data, bo.value, dc.value[1], dc.value[2]) IN
    [ok |-> TRUE, caller |-> CallerHeaderAfter(header, local),
     header |-> local, bytes |-> EncBytes(data)]

\* -------------------------------------------------------- parse_envi_header
\* s[a:b] and s[a:], positions counted from 0, b cut to the length of s
Slice(s, a, b) == SubSeq(s, a + 1, IF b > Len(s) THEN Len(s) ELSE b)
SliceFrom(s, a) == SubSeq(s, a + 1, Len(s))

Whitespace == {" ", "\t", "\n", "\r"}

RECURSIVE LStrip(_)
LStrip(s) == IF s # <<>> /\ Head(s) \in Whitespace THEN LStrip(Tail(s)) ELSE s

RECURSIVE RStrip(_)
RStrip(s) ==
    IF s # <<>> /\ s[Len(s)] \in Whitespace THEN RStrip(SubSeq(s, 1, Len(s) - 1)) ELSE s

\* str.strip()
Strip(s) == RStrip(LStrip(s))

\* The first position from i on whose character is in (stop = TRUE) or not in
\* (stop = FALSE) the set cs; Len(s) when there is none, where s[i] raises
\* IndexError
Scan(s, i, cs, stop) ==
    LET found == {j \in (i + 1)..Len(s) : (s[j] \in cs) = stop}
    IN  IF found = {} THEN Len(s)
        ELSE (CHOOSE j \in found : \A k \in found : j <= k) - 1

\* Lines 186-190: identifier -> { ^"=" }
parse_identifier(s) ==
    LET i == Scan(s, 0, {"="}, TRUE)
    IN  IF i >= Len(s) THEN Err("IndexError")
        ELSE Ok(<<SliceFrom(s, i), Strip(Slice(s, 0, i))>>)

\* Lines 174-183: assignment -> { " " | "\t" } "=" { " " | "\t" }
parse_assignment(s) ==
    LET i == Scan(s, 0, {" ", "\t"}, FALSE)
    IN  IF i >= Len(s) THEN Err("IndexError")
        ELSE IF s[i + 1] # "=" THEN Err("ParseError")
        ELSE LET j == Scan(s, i + 1, {" ", "\t"}, FALSE)
             IN  IF j >= Len(s) THEN Err("IndexError")
                 ELSE Ok(<<SliceFrom(s, j), Slice(s, 0, j)>>)

\* Lines 200-210: the inner loop of parse_list over one element, from position
\* i with the element's bounds s and e so far; <<i, s, e>> at the ',' or '}'
\* that ends it
RECURSIVE ListElement(_, _, _, _)
ListElement(ls, i, s, e) ==
    IF i >= Len(ls) THEN Err("IndexError")
    ELSE IF ls[i + 1] \in {",", "}"} THEN Ok(<<i, s, e>>)
    ELSE IF ls[i + 1] = "\""
         THEN LET q == Scan(ls, i + 1, {"\""}, TRUE)
              IN  IF q >= Len(ls) THEN Err("IndexError")
                  ELSE ListElement(ls, q + 1, i + 1, q)
         ELSE ListElement(ls, i + 1, s, i + 1)

\* Lines 197-213: the outer loop of parse_list; <<i, values>> at the '}'
RECURSIVE ListElements(_, _, _)
ListElements(ls, i, values) ==
    IF i >= Len(ls) THEN Err("IndexError")
    ELSE IF ls[i + 1] = "}" THEN Ok(<<i, values>>)
    ELSE LET el == ListElement(ls, i, i, 1)
         IN  IF ~el.ok THEN el
             ELSE LET j == el.value[1]
                      v == Strip(Slice(ls, el.value[2], el.value[3]))
                  IN  ListElements(ls, IF ls[j + 1] = "," THEN j + 1 ELSE j,
                                   Append(values, PyStr(v)))

\* Lines 194-216: "{" ? "}"
parse_list(ls) ==
    LET r == ListElements(ls, 1, <<>>)
    IN  IF ~r.ok THEN r
        ELSE IF Slice(ls, r.value[1], r.value[1] + 2) # <<"}", "\n">>
             THEN Err("ParseError")
             ELSE Ok(<<SliceFrom(ls, r.value[1] + 2), PyList(r.value[2])>>)

\* Lines 193-223: value -> *\n | "{" ? "}".  The list is parsed from
\* to_be_parsed, which is s when parse_value is called (line 240).
parse_value(s) ==
    IF s = <<>> THEN Err("IndexError")
    ELSE IF s[1] = "{" THEN parse_list(s)
    ELSE LET i == Scan(s, 0, {"\n"}, TRUE)
         IN  IF i >= Len(s) THEN Err("IndexError")
             ELSE Ok(<<SliceFrom(s, i + 1), PyStr(Slice(s, 0, i))>>)

\* Lines 236-241: header <- { identifier assignment value }
RECURSIVE ParseEntries(_, _)
ParseEntries(to_be_parsed, header) ==
    IF Len(to_be_parsed) = 0 THEN Ok(header) ELSE
    LET id == parse_identifier(to_be_parsed) IN
    IF ~id.ok THEN id ELSE
    LET asg == parse_assignment(id.value[1]) IN
    IF ~asg.ok THEN asg ELSE
    LET val == parse_value(asg.value[1]) IN
    IF ~val.ok THEN val ELSE
    ParseEntries(val.value[1], DictSet(header, id.value[2], val.value[2]))

\* Line 226: str.replace('\r\n', '\n')
DropCR(s) ==
    LET kept == {i \in 1..Len(s) :
                    ~(s[i] = "\r" /\ i < Len(s) /\ s[i + 1] = "\n")}
        at(k) == CHOOSE i \in kept : Cardinality({j \in kept : j <= i}) = k
    IN  IF kept = 1..Len(s) THEN s
        ELSE [k \in 1..Cardinality(kept) |-> s[at(k)]]

\* Lines 244-250: the keys made lowercase, a later entry replacing an earlier
\* one of the same lowercase key
RECURSIVE LowercaseKeys(_, _, _)
LowercaseKeys(header, k, lowercased_header) ==
    IF k > Len(header.keys) THEN lowercased_header
    ELSE LowercaseKeys(header, k + 1,
            DictSet(lowercased_header, StrLower(header.keys[k]),
                    header.at[header.keys[k]]))

\* ---------------------------------------------------- int(), float(), ...
DigitChars == <<"0","1","2","3","4","5","6","7","8","9">>
IsDigit(c) == \E d \in 1..10 : DigitChars[d] = c
DigitVal(c) == (CHOOSE d \in 1..10 : DigitChars[d] = c) - 1

AllDigits(s) == \A i \in 1..Len(s) : IsDigit(s[i])

RECURSIVE DigitsVal(_)
DigitsVal(s) ==
    IF s = <<>> THEN 0
    ELSE 10 * DigitsVal(SubSeq(s, 1, Len(s) - 1)) + DigitVal(s[Len(s)])

\* A text with its sign taken off: <<sign, rest>>
Signed(s) ==
    IF s # <<>> /\ s[1] = "-" THEN <<-1, Tail(s)>>
    ELSE IF s # <<>> /\ s[1] = "+" THEN <<1, Tail(s)>>
    ELSE <<1, s>>

\* int(s) of a str: surrounding whitespace, a sign and decimal digits
PyIntOf(s) ==
    LET u == Signed(Strip(s))
    IN  IF u[2] # <<>> /\ AllDigits(u[2])
        THEN Ok(PyInt(u[1] * DigitsVal(u[2])))
        ELSE Err("ValueError")

\* m * 10^-e with the trailing zeros of the fraction taken off
RECURSIVE Normal(_, _)
Normal(m, e) == IF e > 0 /\ m % 10 = 0 THEN Normal(m \div 10, e - 1) ELSE <<m, e>>

\* The decimal a text of digits with at most one point stands for: <<m, e>>.
\* The texts drawn have no exponent, "inf" or "nan".
DecimalOf(s) ==
    LET u == Signed(Strip(s))
        p == Scan(u[2], 0, {"."}, TRUE)
        whole == Slice(u[2], 0, p)
        frac == SliceFrom(u[2], p + 1)
    IN  IF AllDigits(whole) /\ AllDigits(frac) /\ Len(whole) + Len(frac) > 0
        THEN Ok(Normal(u[1] * DigitsVal(whole \o frac), Len(frac)))
        ELSE Err("ValueError")

\* float(s) of a str
PyFloatOf(s) ==
    LET d == DecimalOf(s)
    IN  IF d.ok THEN Ok(PyFloat(d.value[1], d.value[2])) ELSE d

\* decimal.Decimal(s) of a str
PyDecimalOf(s) ==
    LET d == DecimalOf(s)
    IN  IF d.ok THEN Ok([t |-> "Decimal", v |-> d.value])
        ELSE Err("InvalidOperation")

DaysIn(y, m) ==
    IF m = 2 THEN (IF (y % 4 = 0 /\ y % 100 # 0) \/ y % 400 = 0 THEN 29 ELSE 28)
    ELSE IF m \in {4, 6, 9, 11} THEN 30 ELSE 31

\* dateutil.parser.isoparse(s) of a date YYYY-MM-DD: the texts drawn hold no
\* time of day
IsoParse(s) ==
    IF /\ Len(s) = 10 /\ s[5] = "-" /\ s[8] = "-"
       /\ AllDigits(SubSeq(s, 1, 4)) /\ AllDigits(SubSeq(s, 6, 7))
       /\ AllDigits(SubSeq(s, 9, 10))
       /\ DigitsVal(SubSeq(s, 6, 7)) \in 1..12
       /\ DigitsVal(SubSeq(s, 9, 10))
            \in 1..DaysIn(DigitsVal(SubSeq(s, 1, 4)), DigitsVal(SubSeq(s, 6, 7)))
    THEN Ok([t |-> "datetime",
             v |-> <<DigitsVal(SubSeq(s, 1, 4)), DigitsVal(SubSeq(s, 6, 7)),
                     DigitsVal(SubSeq(s, 9, 10))>>])
    ELSE Err("ValueError")

\* str.split(','): the pieces between the commas
RECURSIVE SplitComma(_)
SplitComma(s) ==
    LET i == Scan(s, 0, {","}, TRUE)
    IN  IF i >= Len(s) THEN <<s>>
        ELSE <<Slice(s, 0, i)>> \o SplitComma(SliceFrom(s, i + 1))

\* map over a sequence of results: the values, or the first error
RECURSIVE AllOk(_)
AllOk(rs) ==
    IF rs = <<>> THEN Ok(<<>>)
    ELSE IF ~Head(rs).ok THEN Head(rs)
    ELSE LET rest == AllOk(Tail(rs))
         IN  IF ~rest.ok THEN rest ELSE Ok(<<Head(rs).value>> \o rest.value)

\* Line 162: tuple(map(decimal.Decimal, x.split(',')))
DecimalTuple(s) ==
    LET parts == SplitComma(s)
        r == AllOk([i \in 1..Len(parts) |-> PyDecimalOf(parts[i])])
    IN  IF r.ok THEN Ok([t |-> "tuple", v |-> r.value]) ELSE r

\* Lines 144-164: the static type table, in its order
field_types ==
    << <<K_acquisition_time, "isoparse">>, <<K_bands, "int">>,
       <<K_byte_order, "int">>, <<K_data_gain_values, "float">>,
       <<K_data_type, "int">>, <<K_fwhm, "float">>, <<K_lines, "int">>,
       <<K_samples, "int">>, <<K_wavelength, "float">>,
       <<K_senop_acquisition_mode, "int">>, <<K_senop_frame_counter, "int">>,
       <<K_senop_integration_time, "float">>, <<K_senop_order, "int">>,
       <<K_senop_sequence_order, "int">>, <<K_senop_timestamp, "int">>,
       <<K_senop_acceleration, "decimal3">>, <<K_senop_gyroscope, "decimal3">> >>

\* t(x) for a raw str x and a type t of the table
Convert(t, x) ==
    CASE t = "int" -> PyIntOf(x.v)
      [] t = "float" -> PyFloatOf(x.v)
      [] t = "isoparse" -> IsoParse(x.v)
      [] t = "decimal3" -> DecimalTuple(x.v)

\* Lines 167-170: a list is converted element by element
ConvertField(t, x) ==
    IF x.t = "list"
    THEN LET r == AllOk([i \in 1..Len(x.v) |-> Convert(t, x.v[i])])
         IN  IF r.ok THEN Ok(PyList(r.value)) ELSE r
    ELSE Convert(t, x)

\* Lines 165-171: fix_header_field_types, from the k-th row of the table on
RECURSIVE FixFrom(_, _)
FixFrom(stringy_header, k) ==
    IF k > Len(field_types) THEN Ok(stringy_header)
    ELSE LET f == field_types[k][1]
             t == field_types[k][2]
         IN  IF ~DictHas(stringy_header, f) THEN FixFrom(stringy_header, k + 1)
             ELSE LET r == ConvertField(t, stringy_header.at[f])
                  IN  IF ~r.ok THEN r
                      ELSE FixFrom(DictSet(stringy_header, f, r.value), k + 1)

fix_header_field_types(stringy_header) == FixFrom(stringy_header, 1)

S_ENVI == <<"E","N","V","I","\n">>

\* Lines 142-254
parse_envi_header(str) ==
    IF str = <<>> THEN Err("IndexError") ELSE
    LET unix == DropCR(str)
        to_be_parsed == IF unix[Len(unix)] # "\n" THEN unix \o <<"\n">> ELSE unix
    IN
    IF Slice(to_be_parsed, 0, 5) # S_ENVI THEN Err("ParseError") ELSE
    LET entries == ParseEntries(SliceFrom(to_be_parsed, 5), EmptyDict) IN
    IF ~entries.ok THEN entries ELSE
    fix_header_field_types(LowercaseKeys(entries.value, 1, EmptyDict))

\* ------------------------------------------------------ normalize_envi_cube
S_specim_iq == <<"s","p","e","c","i","m"," ","i","q">>

\* The unsigned integer an element's bit pattern stands for (one or two bytes)
ElemValue(e) == IF Len(e) = 1 THEN e[1] ELSE e[1] * 256 + e[2]

\* The two-byte bit pattern of an unsigned integer
ElemOf16(n) == <<n \div 256, n % 256>>

\* cube.dtype == '<name>': equal to the dtype the name stands for, which has
\* the interpreter's byte order
DTypeEqStr(dt, name, sys) == dt.name = name /\ dt.order \in {"na", sys}

\* cube.astype('float64') / d: every sample as the quotient <<n, d>>
DivideBy(data, d) ==
    [dtype |-> [name |-> "float64", order |-> "native"], shape |-> data.shape,
     at |-> [idx \in DOMAIN data.at |-> <<ElemValue(data.at[idx]), d>>]]

\* A mutant of ShiftLeft4: the samples are shifted by three bits.
ShiftLeft3(data) ==
    [dtype |-> data.dtype, shape |-> data.shape,
     at |-> [idx \in DOMAIN data.at |->
                ElemOf16((ElemValue(data.at[idx]) * 8) % 65536)]]

\* Line 56: cube << 4, in 16 bits
ShiftLeft4(data) ==
    [dtype |-> data.dtype, shape |-> data.shape,
     at |-> [idx \in DOMAIN data.at |->
                ElemOf16((ElemValue(data.at[idx]) * 16) % 65536)]]

\* header.get(key)
DictGet(d, k) == IF DictHas(d, k) THEN d.at[k] ELSE PyNone

\* Lines 49-60.  cubeAfter and headerAfter are the caller's two objects once the
\* call is over: line 56 binds the local name to a new array.
normalize_envi_cube(header, data, sys) ==
    LET same == [cubeAfter |-> data, headerAfter |-> header] IN
    IF DTypeEqStr(data.dtype, "uint8", sys)
    THEN [ok |-> TRUE, value |-> DivideBy(data, 255)] @@ same
    ELSE IF DTypeEqStr(data.dtype, "uint16", sys)
    THEN LET sensor == DictGet(header, K_sensor_type)
         IN  IF sensor.t # "str"
             THEN [ok |-> FALSE, error |-> "AttributeError"] @@ same
             ELSE [ok |-> TRUE,
                   value |-> DivideBy(IF StrLower(sensor.v) = S_specim_iq
                                      THEN ShiftLeft4(data) ELSE data, 65535)]
                  @@ same
    ELSE [ok |-> FALSE, error |-> "UnsupportedDType"] @@ same

\* ------------------------------------------------------ the header writer
RECURSIVE NatStr(_)
NatStr(n) ==
    IF n < 10 THEN <<DigitChars[n + 1]>>
    ELSE NatStr(n \div 10) \o <<DigitChars[(n % 10) + 1]>>

RECURSIVE ZeroPad(_, _)
ZeroPad(s, n) == IF Len(s) >= n THEN s ELSE ZeroPad(<<"0">> \o s, n)

\* f"{value}" of an int
IntStr(x) ==
    IF "digits" \in DOMAIN x THEN x.digits
    ELSE IF x.v < 0 THEN <<"-">> \o NatStr(-x.v) ELSE NatStr(x.v)

\* f"{value}" of a float m * 10^-e
FloatStr(x) ==
    LET m == x.v[1]
        e == x.v[2]
        d == ZeroPad(NatStr(IF m < 0 THEN -m ELSE m), e + 1)
        whole == SubSeq(d, 1, Len(d) - e)
        frac == IF e = 0 THEN <<"0">> ELSE SubSeq(d, Len(d) - e + 1, Len(d))
    IN  (IF m < 0 THEN <<"-">> ELSE <<>>) \o whole \o <<".">> \o frac

\* ", ".join(parts)
RECURSIVE Join(_)
Join(parts) ==
    IF parts = <<>> THEN <<>>
    ELSE IF Len(parts) = 1 THEN parts[1]
    ELSE parts[1] \o <<",", " ">> \o Join(Tail(parts))

\* f"{v}" of an element of a list or array
ElementStr(x) ==
    CASE x.t = "str" -> x.v
      [] x.t = "int" -> IntStr(x)
      [] x.t = "float" -> FloatStr(x)

S_eq == <<" ", "=", " ">>

\* Lines 116-136: what one entry adds to the file, and whether it raises
WriteEntry(key, value) ==
    CASE value.t \in {"int", "float"} ->
            Ok(key \o S_eq \o ElementStr(value) \o <<"\n">>)
      [] value.t = "str" /\ \E i \in 1..Len(value.v) : value.v[i] = " " ->
            Ok(key \o S_eq \o <<"\"">> \o value.v \o <<"\"", "\n">>)
      [] value.t = "str" ->
            Ok(key \o S_eq \o value.v \o <<"\n">>)
      [] value.t = "list" ->
            IF \/ \A i \in 1..Len(value.v) : value.v[i].t = "str"
               \/ \A i \in 1..Len(value.v) : value.v[i].t = "float"
            THEN Ok(key \o S_eq \o <<"{">>
                    \o Join([i \in 1..Len(value.v) |-> ElementStr(value.v[i])])
                    \o <<"}", "\n">>)
            ELSE [ok |-> FALSE, error |-> "UnsupportedValue",
                  value |-> key \o S_eq \o <<"{">>]
      [] value.t = "ndarray" ->
            Ok(key \o S_eq \o <<"{">>
               \o Join([i \in 1..Len(value.v) |-> ElementStr(value.v[i])])
               \o <<"}", "\n">>)
      [] OTHER -> [ok |-> FALSE, error |-> "UnsupportedValue", value |-> <<>>]

\* Lines 115-136: the entries from the k-th on, after what is written so far
RECURSIVE WriteEntries(_, _, _)
WriteEntries(header, k, written) ==
    IF k > Len(header.keys) THEN Ok(written)
    ELSE LET r == WriteEntry(header.keys[k], header.at[header.keys[k]])
         IN  IF ~r.ok THEN [ok |-> FALSE, error |-> r.error,
                            value |-> written \o r.value]
             ELSE WriteEntries(header, k + 1, written \o r.value)

\* Lines 113-136: the text of the header file; on an error, value is what was
\* written before it
WriteHeader(header) == WriteEntries(header, 1, SubSeq(S_ENVI, 1, 5))

\* ------------------------------------------------------- the codec's inputs
\* The bit pattern of sample number n in w bytes: every byte differs from its
\* neighbours, so a wrong byte order shows.
SampleElem(n, w) == [i \in 1..w |-> (n + 16 * (w - i)) % 256]

\* The cube of shape (L, S, B) whose sample at (l, s, b) is numbered by its place
KnownCube(dt, L, S, B, seed) ==
    [dtype |-> dt, shape |-> <<L, S, B>>,
     at |-> [idx \in Indices(<<L, S, B>>) |->
                SampleElem(seed + idx[1] * S * B + idx[2] * B + idx[3],
                           ItemSize(dt.name))]]

Cubes ==
    {KnownCube(dt, L, S, B, seed) :
        dt \in DTypes, L \in 1..MaxDim, S \in 1..MaxDim, B \in 1..MaxDim,
        seed \in 0..MaxSeed}

StaleHeader ==
    DictSet(DictSet(DictSet(EmptyDict, K_interleave, PyStr(S_bil)),
                    K_lines, PyInt(7)),
            K_description, PyStr(<<"x">>))

CallerHeaders == {EmptyDict, StaleHeader}

NoCall == [called |-> FALSE]

NoFile == [exists |-> FALSE, content |-> <<>>]
File(content) == [exists |-> TRUE, content |-> content]

S_hdr == ".hdr"
S_raw == ".raw"
S_dat == ".dat"
S_img == ".img"

NoFiles == [n \in {S_hdr, S_raw, S_dat, S_img} |-> NoFile]

\* Nothing has been called yet
NoCalls ==
    /\ enc = NoCall /\ decIn = NoCall /\ dec = NoCall /\ norm = NoCall
    /\ parsed = NoCall /\ wr = NoCall /\ rd = NoCall

InitCodec ==
    /\ sysByteorder \in {"little", "big"}
    /\ cube \in Cubes
    /\ callerHeader \in CallerHeaders
    /\ wavelengths = <<>>
    /\ text = <<>>
    /\ fs = NoFiles
    /\ NoCalls

\* The caller encodes its cube: cube_to_bytes(callerHeader, cube)
CubeToBytes ==
    /\ ~enc.called
    /\ LET r == cube_to_bytes(callerHeader, cube, sysByteorder)
       IN  /\ enc' = [called |-> TRUE, before |-> callerHeader] @@ r
           /\ callerHeader' = r.caller
    /\ UNCHANGED <<sysByteorder, cube, wavelengths, decIn, dec, norm, text, parsed, fs, wr, rd>>

\* The caller decodes what the encoder returned: bytes_to_cube(header', bytes)
DecodeEncoded ==
    /\ enc.called /\ enc.ok
    /\ ~dec.called
    /\ decIn' = [called |-> TRUE, from |-> "encoder",
                 header |-> enc.header, bytes |-> enc.bytes]
    /\ dec' = [called |-> TRUE] @@ bytes_to_cube(enc.header, enc.bytes)
    /\ UNCHANGED <<sysByteorder, cube, callerHeader, wavelengths, enc, norm, text, parsed, fs, wr, rd>>

\* ------------------------------------------- files of the three interleaves
\* The data type registry: the code of each element type
RegistryCode(name) ==
    CASE name = "uint8" -> 1    [] name = "int16" -> 2   [] name = "int32" -> 3
      [] name = "float32" -> 4  [] name = "float64" -> 5 [] name = "complex64" -> 9
      [] name = "uint16" -> 12  [] name = "uint32" -> 13 [] name = "int64" -> 14
      [] name = "uint64" -> 15  [] OTHER -> 0

RegistryNames == {n \in DTypeNames : RegistryCode(n) # 0}

\* The element index of sample (l, s, b) in a file of each interleave
RefIndex(il, l, s, b, L, S, B) ==
    CASE il = S_bsq -> b * L * S + l * S + s
      [] il = S_bil -> l * B * S + b * S + s
      [] il = S_bip -> (l * S + s) * B + b

\* The bytes a producer of that interleave writes for cube c, in c's byte order
RefBytes(c, il) ==
    LET L == c.shape[1]
        S == c.shape[2]
        B == c.shape[3]
        I == Indices(c.shape)
    IN  Concat([k \in 1..(L * S * B) |->
            ElemMemory(c.at[CHOOSE idx \in I :
                              RefIndex(il, idx[1], idx[2], idx[3], L, S, B) = k - 1],
                       c.dtype)])

\* The header such a producer writes, the interleave spelled as given
RefHeader(c, spelling, code, bo) ==
    LET h1 == DictSet(EmptyDict, K_samples, PyInt(c.shape[2]))
        h2 == DictSet(h1, K_lines, PyInt(c.shape[1]))
        h3 == DictSet(h2, K_bands, PyInt(c.shape[3]))
        h4 == DictSet(h3, K_data_type, PyInt(code))
        h5 == DictSet(h4, K_byte_order, PyInt(bo))
    IN  DictSet(h5, K_interleave, PyStr(spelling))

OwnByteOrder(c) == IF c.dtype.order = "big" THEN 1 ELSE 0

\* A buffer with bytes missing at its end, or zero bytes added to it
Resize(b, extra, w) ==
    CASE extra = "0" -> b
      [] extra = "-byte" -> SubSeq(b, 1, Len(b) - 1)
      [] extra = "-elem" -> SubSeq(b, 1, Len(b) - w)
      [] extra = "+byte" -> b \o <<0>>
      [] extra = "+elem" -> b \o [i \in 1..w |-> 0]

Spellings == {S_bil, S_bip, S_bsq, S_BSQ, S_BIL, S_Bip, S_xyz}
Extras == {"0", "-byte", "-elem", "+byte", "+elem"}

\* What is tried on a file: the spelling of its interleave, a data type code or
\* byte order other than its own (-1: its own), and the change of its length
RefParams ==
    {[il |-> il, code |-> -1, bo |-> -1, extra |-> x] :
        il \in Spellings, x \in Extras}
    \cup {[il |-> S_bsq, code |-> k, bo |-> -1, extra |-> x] :
            k \in {0, 6, 16}, x \in {"0", "+byte"}}
    \cup {[il |-> il, code |-> -1, bo |-> 2, extra |-> "0"] : il \in {S_bsq, S_xyz}}

InitDecode ==
    /\ sysByteorder = "little"
    /\ cube \in {c \in Cubes : c.dtype.name \in RegistryNames}
    /\ callerHeader = EmptyDict
    /\ wavelengths = <<>>
    /\ text = <<>>
    /\ fs = NoFiles
    /\ NoCalls

\* The caller decodes a file of some interleave that holds the known cube
DecodeReference ==
    /\ ~dec.called
    /\ \E p \in RefParams :
        LET il == IF StrLower(p.il) \in {S_bil, S_bip, S_bsq}
                  THEN StrLower(p.il) ELSE S_bsq
            code == IF p.code = -1 THEN RegistryCode(cube.dtype.name) ELSE p.code
            bo == IF p.bo = -1 THEN OwnByteOrder(cube) ELSE p.bo
            header == RefHeader(cube, p.il, code, bo)
            b == Resize(RefBytes(cube, il), p.extra, ItemSize(cube.dtype.name))
        IN  /\ decIn' = [called |-> TRUE, from |-> "file", header |-> header,
                         bytes |-> b, p |-> p, code |-> code, bo |-> bo]
            /\ dec' = [called |-> TRUE] @@ bytes_to_cube(header, b)
    /\ UNCHANGED <<sysByteorder, cube, callerHeader, wavelengths, enc, norm, text, parsed, fs, wr, rd>>

NextEncode == CubeToBytes \/ DecodeEncoded
SpecEncode == InitCodec /\ [][NextEncode]_vars

NextDecode == DecodeReference
SpecDecode == InitDecode /\ [][NextDecode]_vars

\* ------------------------------------------------------------ normalizing
MaxNormLen == 2

\* The samples tried, by element type
NormValues(name) ==
    CASE name = "uint8" -> {0, 128, 255}
      [] name = "uint16" -> {0, 4095, 4096, 65535}
      [] OTHER -> {0}

\* The w-byte bit pattern of a small unsigned integer
ElemOf(n, w) == [i \in 1..w |-> IF i = w THEN n % 256
                                ELSE IF i = w - 1 THEN (n \div 256) % 256 ELSE 0]

NormDTypes ==
    {dt \in DTypes : dt.name \in {"uint8", "uint16"}}
    \cup {[name |-> "int16", order |-> "little"],
          [name |-> "float32", order |-> "little"]}

NormCubes ==
    {[dtype |-> dt, shape |-> <<1, 1, n>>,
      at |-> [idx \in Indices(<<1, 1, n>>) |->
                 ElemOf(vals[idx[3] + 1], ItemSize(dt.name))]] :
        <<dt, n, vals>> \in
            {x \in NormDTypes \X (1..MaxNormLen)
                    \X UNION {[1..k -> {0, 128, 255, 4095, 4096, 65535}] :
                                k \in 1..MaxNormLen} :
                /\ DOMAIN x[3] = 1..x[2]
                /\ \A i \in 1..x[2] : x[3][i] \in NormValues(x[1].name)}}

S_Specim_IQ == <<"S","p","e","c","i","m"," ","I","Q">>
S_HySpex == <<"H","y","S","p","e","x">>

SensorHeaders ==
    {EmptyDict} \cup
    {DictSet(EmptyDict, K_sensor_type, PyStr(n)) :
        n \in {S_specim_iq, S_Specim_IQ, S_HySpex}}

InitNorm ==
    /\ sysByteorder \in {"little", "big"}
    /\ cube \in NormCubes
    /\ callerHeader \in SensorHeaders
    /\ wavelengths = <<>>
    /\ text = <<>>
    /\ fs = NoFiles
    /\ NoCalls

\* The caller normalizes its cube: normalize_envi_cube(callerHeader, cube)
NormalizeEnviCube ==
    /\ ~norm.called
    /\ LET r == normalize_envi_cube(callerHeader, cube, sysByteorder)
       IN  /\ norm' = [called |-> TRUE, cubeBefore |-> cube,
                       headerBefore |-> callerHeader] @@ r
           /\ cube' = r.cubeAfter
           /\ callerHeader' = r.headerAfter
    /\ UNCHANGED <<sysByteorder, wavelengths, enc, decIn, dec, text, parsed,
                   fs, wr, rd>>

NextNorm == NormalizeEnviCube
SpecNorm == InitNorm /\ [][NextNorm]_vars

\* ------------------------------------------------------------ header texts
MaxBody == 4

BodyChars == {"a", "=", "\n", "{", "}", "\"", ","}

Bodies == UNION {[1..n -> BodyChars] : n \in 0..MaxBody}

Magics == {<<"E","N","V","I","\n">>, <<"E","N","V","I","\r","\n">>,
           <<"E","N","V","\n">>, <<"E","N","V","I">>, <<>>}

\* A longer header, as a camera writes it, with one of its lines replaced
GoodLines ==
    << <<"s","a","m","p","l","e","s"," ","="," ","2","\n">>,
       <<"W","a","v","e","l","e","n","g","t","h"," ","="," ","{","1",".","5",",",
         " ","2","}","\n">>,
       <<"n","o","t","e"," ","="," ","{","\"","a",","," ","b","\"",","," ","c",
         "}","\r","\n">> >>

BadLines ==
    { <<"s","a","m","p","l","e","s"," ","2","\n">>,
      <<"n","o","t","e"," ","="," ","{","\"","a",","," ","b",","," ","c","}","\n">>,
      <<"n","o","t","e"," ","="," ","{","a",","," ","b","\n">>,
      <<"n","o","t","e"," ","="," ","{","a","}"," ","\n">>,
      <<"s","a","m","p","l","e","s"," ","="," ","x","\n">> }

LongTexts ==
    {S_ENVI \o Concat([i \in 1..3 |-> IF i = k THEN bad ELSE GoodLines[i]]) :
        k \in 1..3, bad \in BadLines}
    \cup {S_ENVI \o Concat(GoodLines)}

Texts == {m \o b : m \in Magics, b \in Bodies} \cup LongTexts

InitParse ==
    /\ sysByteorder = "little"
    /\ cube = 0
    /\ callerHeader = EmptyDict
    /\ wavelengths = <<>>
    /\ text \in Texts
    /\ fs = NoFiles
    /\ NoCalls

\* The caller parses a text: parse_envi_header(text)
ParseEnviHeader ==
    /\ ~parsed.called
    /\ parsed' = [called |-> TRUE] @@ parse_envi_header(text)
    /\ UNCHANGED <<sysByteorder, cube, callerHeader, wavelengths, enc, decIn,
                   dec, norm, text, fs, wr, rd>>

NextParse == ParseEnviHeader
SpecParse == InitParse /\ [][NextParse]_vars

\* ------------------------------------------- read_envi, read_zipped_envi
\* Line 68: the suffixes read_envi tries, in its order
raw_data_suffixes_swapped == <<S_dat, S_raw, S_img>>

raw_data_suffixes == <<S_raw, S_dat, S_img>>

\* Line 87: the suffixes read_zipped_envi tries, in its order
zip_raw_data_suffixes == <<S_raw, S_dat>>

\* Lines 68-71 and 87-92: the first suffix from the k-th on whose file exists
RECURSIVE Probe(_, _, _)
Probe(files, suffixes, k) ==
    IF k > Len(suffixes) THEN "None"
    ELSE IF files[suffixes[k]].exists THEN suffixes[k]
    ELSE Probe(files, suffixes, k + 1)

\* A call that raised after the data file `used` was chosen
ReadFailed(kind, used) == [ok |-> FALSE, error |-> kind, used |-> used]

\* np.array(header['wavelength'], 'float32'): the values tried are floats that
\* 32 bits hold exactly
WavelengthArray(x) ==
    [t |-> "ndarray", v |-> IF x.t = "list" THEN x.v ELSE <<x>>]

\* Lines 78-81 and 101-104: the optional normalizing and the triple returned
ReadResult(header, data, normalize, used, sys) ==
    LET n == IF normalize THEN normalize_envi_cube(header, data, sys)
             ELSE [ok |-> TRUE, value |-> data]
    IN  IF ~n.ok THEN ReadFailed(n.error, used)
        ELSE IF ~DictHas(header, K_wavelength) THEN ReadFailed("KeyError", used)
        ELSE [ok |-> TRUE, cube |-> n.value,
              wavelengths |-> WavelengthArray(header.at[K_wavelength]),
              header |-> header, used |-> used]

\* The only element of a set of one element
Only(S) == CHOOSE x \in S : TRUE

\* Lines 70, 73, 99 and what follows them: the bytes decoded with the header,
\* once, and the triple returned
ReadDecoded(header, b, normalize, used, sys) ==
    Only({IF ~data.ok THEN ReadFailed(data.error, used)
          ELSE ReadResult(header, data.value, normalize, used, sys) :
            data \in {bytes_to_cube(header, b)}})

\* Lines 63-81.  data_file is "None" or the suffix of the file named.  The
\* header is parsed once (line 64).
read_envi(files, data_file, normalize, sys) ==
    IF ~files[S_hdr].exists THEN ReadFailed("FileNotFoundError", "None") ELSE
    Only({IF ~header.ok THEN ReadFailed(header.error, "None") ELSE
          LET used == IF data_file = "None"
                      THEN Probe(files, raw_data_suffixes, 1) ELSE data_file
          IN
          IF used = "None" THEN ReadFailed("MissingDataFile", "None") ELSE
          IF ~files[used].exists THEN ReadFailed("FileNotFoundError", used) ELSE
          ReadDecoded(header.value, files[used].content, normalize, used, sys) :
            header \in {parse_envi_header(files[S_hdr].content)}})

\* Lines 84-104.  The archive's members are the files of the same names.  The
\* header is parsed once (line 98), after the data member is found and read.
read_zipped_envi(files, normalize, sys) ==
    IF ~files[S_hdr].exists THEN ReadFailed("KeyError", "None") ELSE
    LET used == Probe(files, zip_raw_data_suffixes, 1) IN
    IF used = "None" THEN ReadFailed("MissingDataFile", "None") ELSE
    Only({IF ~header.ok THEN ReadFailed(header.error, used) ELSE
          ReadDecoded(header.value, files[used].content, normalize, used, sys) :
            header \in {parse_envi_header(files[S_hdr].content)}})

\* --------------------------------------------------------------- write_envi
\* Lines 106-139.  caller is the caller's dict and files the directory once the
\* call is over; data_file is "None" or the suffix of the file named.
write_envi(files, header, data, wavelength_array, data_file, sys) ==
    LET target == IF data_file = "None" THEN S_dat ELSE data_file
        given == DictSet(header, K_wavelength, wavelength_array)
        e == cube_to_bytes(given, data, sys)
    IN  IF ~e.ok
        THEN [ok |-> FALSE, error |-> e.error, caller |-> e.caller,
              files |-> files]
        ELSE LET h == WriteHeader(e.header)
                 withHeader == [files EXCEPT ![S_hdr] = File(h.value)]
             IN  IF ~h.ok
                 THEN [ok |-> FALSE, error |-> h.error, caller |-> e.caller,
                       files |-> withHeader]
                 ELSE [ok |-> TRUE, header |-> e.header, caller |-> e.caller,
                       files |-> [withHeader EXCEPT ![target] = File(e.bytes)]]

\* ------------------------------------------------------ directories read
\* One entry of a header file
Line(key, value) == key \o S_eq \o value \o <<"\n">>

\* The header of one line of one sample: the bands, the data type code, whether
\* the wavelengths are listed, the sensor named
HeaderText(bands, data_type, wavelength, sensor) ==
    S_ENVI \o Line(K_samples, <<"1">>) \o Line(K_lines, <<"1">>)
        \o Line(K_bands, bands) \o Line(K_data_type, data_type)
        \o Line(K_byte_order, <<"0">>) \o Line(K_interleave, S_bsq)
        \o (IF wavelength = <<>> THEN <<>> ELSE Line(K_wavelength, wavelength))
        \o (IF sensor = <<>> THEN <<>> ELSE Line(K_sensor_type, sensor))

S_two_wavelengths == <<"{","1",".","5",","," ","2",".","0","}">>
S_one_wavelength == <<"{","1",".","5","}">>

HeaderFiles ==
    {NoFile,
     File(HeaderText(<<"2">>, <<"1">>, S_two_wavelengths, <<>>)),
     File(HeaderText(<<"2">>, <<"1">>, <<>>, <<>>)),
     File(HeaderText(<<"1">>, <<"1","2">>, S_one_wavelength, <<>>)),
     File(HeaderText(<<"1">>, <<"1","2">>, S_one_wavelength, S_HySpex)),
     File(S_ENVI \o <<"f","o","o","\n">>),
     File(Line(K_samples, <<"1">>))}

\* The files a directory may hold under a suffix: none, two bytes that tell the
\* suffix, or one byte only
DataFiles(first) == {NoFile, File(<<first, first + 1>>), File(<<first>>)}

InitRead ==
    /\ sysByteorder \in {"little", "big"}
    /\ cube = 0
    /\ callerHeader = EmptyDict
    /\ wavelengths = <<>>
    /\ text = <<>>
    /\ \E h \in HeaderFiles, r \in DataFiles(10), d \in DataFiles(20),
          i \in DataFiles(30) :
        fs = [n \in {S_hdr, S_raw, S_dat, S_img} |->
                CASE n = S_hdr -> h [] n = S_raw -> r [] n = S_dat -> d
                  [] n = S_img -> i]
    /\ NoCalls

\* The caller reads the directory: read_envi(x.hdr, data_file, normalize)
ReadEnvi ==
    /\ ~rd.called
    /\ \E data_file \in {"None", S_raw, S_dat, S_img}, normalize \in BOOLEAN :
        rd' = [called |-> TRUE, fn |-> "read_envi", data_file |-> data_file,
               normalize |-> normalize]
              @@ read_envi(fs, data_file, normalize, sysByteorder)
    /\ UNCHANGED <<sysByteorder, cube, callerHeader, wavelengths, enc, decIn,
                   dec, norm, text, parsed, fs, wr>>

\* The caller reads the archive of the same members:
\* read_zipped_envi(archive, x.hdr, normalize)
ReadZippedEnvi ==
    /\ ~rd.called
    /\ \E normalize \in BOOLEAN :
        rd' = [called |-> TRUE, fn |-> "read_zipped_envi",
               data_file |-> "None", normalize |-> normalize]
              @@ read_zipped_envi(fs, normalize, sysByteorder)
    /\ UNCHANGED <<sysByteorder, cube, callerHeader, wavelengths, enc, decIn,
                   dec, norm, text, parsed, fs, wr>>

NextRead == ReadEnvi \/ ReadZippedEnvi
SpecRead == InitRead /\ [][NextRead]_vars

\* --------------------------------------------------- headers written
\* The typed values parse_envi_header gives the keys of its table
TypedEntries ==
    << <<K_acquisition_time, [t |-> "datetime", v |-> <<2024, 1, 2>>]>>,
       <<K_data_gain_values, PyList(<<PyFloat(15, 1), PyFloat(2, 0)>>)>>,
       <<K_fwhm, PyList(<<PyFloat(-25, 2)>>)>>,
       <<K_senop_frame_counter, PyInt(7)>>,
       <<K_senop_integration_time, PyFloat(25, 2)>>,
       <<K_senop_acceleration,
         [t |-> "tuple",
          v |-> [i \in 1..3 |-> [t |-> "Decimal",
                                  v |-> << <<1, 0>>, <<-5, 1>>, <<0, 0>> >>[i]]]]>>,
       <<K_bands, PyInt(9)>> >>

\* The header that holds the entries chosen, in the order of TypedEntries
RECURSIVE TypedHeader(_, _)
TypedHeader(chosen, k) ==
    IF k = 0 THEN EmptyDict
    ELSE LET h == TypedHeader(chosen, k - 1)
         IN  IF k \in chosen
             THEN DictSet(h, TypedEntries[k][1], TypedEntries[k][2]) ELSE h

TypedHeaders ==
    {TypedHeader(chosen, Len(TypedEntries)) :
        chosen \in SUBSET (1..Len(TypedEntries))}

WavelengthArrays ==
    {[t |-> "ndarray", v |-> <<PyFloat(4005, 1), PyFloat(1000, 0)>>],
     [t |-> "ndarray", v |-> <<PyFloat(5, 1)>>]}

InitWrite ==
    /\ sysByteorder \in {"little", "big"}
    /\ wavelengths \in WavelengthArrays
    /\ cube \in {KnownCube(dt, 1, 1, Len(wavelengths.v), 0) :
                    dt \in {d \in DTypes : d.name \in {"uint8", "uint16", "float32"}}}
    /\ callerHeader \in TypedHeaders
    /\ text = <<>>
    /\ fs = NoFiles
    /\ NoCalls

\* The caller writes its cube: write_envi(x.hdr, callerHeader, cube,
\* wavelengths, data_file)
WriteEnvi ==
    /\ ~wr.called
    /\ \E data_file \in {"None", S_raw} :
        LET r == write_envi(fs, callerHeader, cube, wavelengths, data_file,
                            sysByteorder)
        IN  /\ wr' = [called |-> TRUE, before |-> callerHeader,
                      data_file |-> data_file] @@ r
            /\ callerHeader' = r.caller
            /\ fs' = r.files
    /\ UNCHANGED <<sysByteorder, cube, wavelengths, enc, decIn, dec, norm,
                   text, parsed, rd>>

\* The caller parses the header file written: parse_envi_header(x.hdr's text)
ParseWritten ==
    /\ wr.called /\ wr.ok
    /\ ~parsed.called
    /\ text' = fs[S_hdr].content
    /\ parsed' = [called |-> TRUE] @@ parse_envi_header(fs[S_hdr].content)
    /\ UNCHANGED <<sysByteorder, cube, callerHeader, wavelengths, enc, decIn,
                   dec, norm, fs, wr, rd>>

NextWrite == WriteEnvi \/ ParseWritten
SpecWrite == InitWrite /\ [][NextWrite]_vars

\* ------------------------------------------------------ claims on the codec
NativeCube == cube.dtype.order \in {"na", sysByteorder}

\* The decoder returned the known cube in the axis order (lines, samples, bands)
DecodedIsCube ==
    /\ dec.ok
    /\ dec.value.shape = cube.shape
    /\ dec.value.at = cube.at

\* C1: every cube of a registry element type (in the interpreter's byte order)
\* is encoded by cube_to_bytes, and decoding the returned bytes with the returned
\* header gives back a cube of the same shape with the same sample everywhere.
C1_RoundTrip ==
    (cube.dtype.name \in RegistryNames /\ NativeCube) =>
        /\ enc.called => enc.ok
        /\ (dec.called /\ decIn.from = "encoder") => DecodedIsCube

\* A file as its producer wrote it: own data type code and byte order, whole
ValidFile ==
    /\ dec.called /\ decIn.from = "file"
    /\ decIn.p.code = -1 /\ decIn.p.bo = -1 /\ decIn.p.extra = "0"
    /\ StrLower(decIn.p.il) \in {S_bil, S_bip, S_bsq}

\* The data type codes bytes_to_cube resolves to an element type
ResolvedCodes == {1, 4, 5, 12}

\* C2: for each interleave, spelled in any case, bytes_to_cube of the bytes a
\* producer of that interleave writes for a known cube returns that cube in the
\* axis order (lines, samples, bands).  Stated for the element types the decoder
\* resolves, so that only the layout decides it.
C2_InterleaveDecode ==
    (ValidFile /\ decIn.code \in ResolvedCodes) => DecodedIsCube

\* C7: with a valid byte order and interleave and a buffer of the right size,
\* each of the ten registry codes decodes to its element type, and every other
\* code fails with UnknownFormat.
C7_DataTypeTable ==
    (/\ dec.called /\ decIn.from = "file"
     /\ decIn.p.bo = -1 /\ decIn.p.extra = "0"
     /\ StrLower(decIn.p.il) \in {S_bil, S_bip, S_bsq}) =>
        IF \E n \in RegistryNames : RegistryCode(n) = decIn.code
        THEN dec.ok /\ RegistryCode(dec.value.dtype.name) = decIn.code
        ELSE ~dec.ok /\ dec.error = "UnknownFormat"

\* A file with a valid byte order and interleave and a data type code the
\* decoder resolves, of any length
SizedFile ==
    /\ dec.called /\ decIn.from = "file"
    /\ decIn.p.code = -1 /\ decIn.p.bo = -1
    /\ StrLower(decIn.p.il) \in {S_bil, S_bip, S_bsq}
    /\ decIn.code \in ResolvedCodes

NeededBytes == Prod(cube.shape) * ItemSize(cube.dtype.name)

\* C9 as stated: decoding succeeds whenever the buffer holds at least
\* lines * samples * bands * byteWidth bytes, and fails with SizeMismatch
\* whenever it holds fewer.
C9_AtLeast ==
    SizedFile =>
        IF Len(decIn.bytes) >= NeededBytes
        THEN dec.ok
        ELSE ~dec.ok /\ dec.error = "SizeMismatch"

\* C9 amended: decoding succeeds exactly when the buffer holds
\* lines * samples * bands * byteWidth bytes, and fails with SizeMismatch
\* whenever it holds fewer or more.
C9_Exactly ==
    SizedFile =>
        IF Len(decIn.bytes) = NeededBytes
        THEN dec.ok
        ELSE ~dec.ok /\ dec.error = "SizeMismatch"

\* A longer buffer was refused
C9_Witness ==
    /\ SizedFile
    /\ Len(decIn.bytes) > NeededBytes
    /\ ~dec.ok /\ dec.error = "SizeMismatch"

\* The scale factor of an element type: 1.0 for the floating and complex types,
\* the largest value of the type for the integer types
ExpectedScale(name) ==
    IF name \in {"float32", "float64", "complex64"} THEN PyFloat(1, 0)
    ELSE IF name \in {"int16", "int32", "int64"}
         THEN PyIntPow2m1(8 * ItemSize(name) - 1)
         ELSE PyIntPow2m1(8 * ItemSize(name))

\* C10: whatever header it was given, cube_to_bytes of an accepted cube of shape
\* (L, S, B) returns a header with interleave BSQ, lines L, samples S, bands B,
\* the data type and scale factor of the element type, and bytes whose element
\* b*L*S + l*S + s is cube[l][s][b]; the caller's header is not modified.
C10_EncodeBsq ==
    (enc.called /\ enc.ok) =>
        LET L == cube.shape[1]
            S == cube.shape[2]
            B == cube.shape[3]
            w == ItemSize(cube.dtype.name)
        IN  /\ enc.header.at[K_interleave] = PyStr(S_BSQ)
            /\ enc.header.at[K_lines] = PyInt(L)
            /\ enc.header.at[K_samples] = PyInt(S)
            /\ enc.header.at[K_bands] = PyInt(B)
            /\ enc.header.at[K_data_type] = PyInt(RegistryCode(cube.dtype.name))
            /\ enc.header.at[K_reflectance_scale_factor]
                    = ExpectedScale(cube.dtype.name)
            /\ Len(enc.bytes) = L * S * B * w
            /\ \A idx \in Indices(cube.shape) :
                LET k == idx[3] * L * S + idx[1] * S + idx[2]
                IN  SubSeq(enc.bytes, k * w + 1, k * w + w)
                        = ElemMemory(cube.at[idx], cube.dtype)
            /\ callerHeader = enc.before

\* A cube with two lines, samples and bands was encoded for a caller whose
\* header said BIL
C10_Witness ==
    /\ enc.called /\ enc.ok
    /\ cube.shape = <<2, 2, 2>>
    /\ enc.before = StaleHeader
    /\ cube.dtype.name = "int32"

\* ------------------------------------------------- claims on the normalizer
\* The header the call was given names the 12-bit sensor (in any case)
TaggedSpecial ==
    /\ DictHas(norm.headerBefore, K_sensor_type)
    /\ norm.headerBefore.at[K_sensor_type].t = "str"
    /\ StrLower(norm.headerBefore.at[K_sensor_type].v) = S_specim_iq

\* The sample the call was given at idx, as an unsigned integer
SampleBefore(idx) == ElemValue(norm.cubeBefore.at[idx])

\* The quotient n / d of two integers in 0..65535 is the float 1.0 exactly
\* when n = d
IsOne(q) == q[1] = q[2]

\* C4 as stated: in a cube normalize_envi_cube returns, the full-scale sample is
\* exactly 1.0 in all three cases: 255 of an 8-bit cube, 65535 of a 16-bit cube
\* whose header is not tagged with the special sensor, and 4095 of a 16-bit
\* cube whose header is tagged with it.
C4_FullScaleIsOne ==
    (norm.called /\ norm.ok) =>
        \A idx \in DOMAIN norm.cubeBefore.at :
            /\ (norm.cubeBefore.dtype.name = "uint8" /\ SampleBefore(idx) = 255)
                    => IsOne(norm.value.at[idx])
            /\ (/\ norm.cubeBefore.dtype.name = "uint16" /\ ~TaggedSpecial
                /\ SampleBefore(idx) = 65535)
                    => IsOne(norm.value.at[idx])
            /\ (/\ norm.cubeBefore.dtype.name = "uint16" /\ TaggedSpecial
                /\ SampleBefore(idx) = 4095)
                    => IsOne(norm.value.at[idx])

\* C4 amended: in a cube normalize_envi_cube returns, 255 of an 8-bit cube and
\* 65535 of a 16-bit cube not tagged with the special sensor are exactly 1.0;
\* 4095 of a 16-bit cube tagged with the special sensor is 65520 / 65535, and
\* no sample of a tagged cube is 1.0.
C4_FullScale ==
    (norm.called /\ norm.ok) =>
        \A idx \in DOMAIN norm.cubeBefore.at :
            /\ (norm.cubeBefore.dtype.name = "uint8" /\ SampleBefore(idx) = 255)
                    => IsOne(norm.value.at[idx])
            /\ (/\ norm.cubeBefore.dtype.name = "uint16" /\ ~TaggedSpecial
                /\ SampleBefore(idx) = 65535)
                    => IsOne(norm.value.at[idx])
            /\ (norm.cubeBefore.dtype.name = "uint16" /\ TaggedSpecial)
                    => /\ ~IsOne(norm.value.at[idx])
                       /\ SampleBefore(idx) = 4095
                            => norm.value.at[idx] = <<65520, 65535>>

\* A tagged 16-bit cube holding 4095 and a larger sample was normalized
C4_Witness ==
    /\ norm.called /\ norm.ok
    /\ norm.cubeBefore.dtype.name = "uint16" /\ TaggedSpecial
    /\ \E idx \in DOMAIN norm.cubeBefore.at : SampleBefore(idx) = 4095
    /\ \E idx \in DOMAIN norm.cubeBefore.at : SampleBefore(idx) = 65535

\* C8: a 16-bit unsigned cube is divided by 65535 sample by sample, after a left
\* shift by 4 bits exactly when the header's sensor field names the 12-bit
\* sensor and directly for every other header, the field being another value
\* or absent; a cube of any other type than u8 and u16 fails with
\* UnsupportedDType; the caller's cube and header are as they were.
C8_SixteenBit ==
    norm.called =>
        /\ norm.cubeBefore.dtype.name = "uint16" =>
            /\ norm.ok
            /\ \A idx \in DOMAIN norm.cubeBefore.at :
                norm.value.at[idx] =
                    <<IF TaggedSpecial THEN (SampleBefore(idx) * 16) % 65536
                      ELSE SampleBefore(idx), 65535>>
        /\ norm.cubeBefore.dtype.name \notin {"uint8", "uint16"} =>
            ~norm.ok /\ norm.error = "UnsupportedDType"
        /\ cube = norm.cubeBefore
        /\ callerHeader = norm.headerBefore

\* ----------------------------------------------------- claims on the parser
\* The text as lines 226-229 leave it, for a text that is not empty
Forced ==
    LET s == DropCR(text)
    IN  IF s[Len(s)] = "\n" THEN s ELSE s \o <<"\n">>

\* The text does not begin with the line ENVI
MissingMagic == text = <<>> \/ Slice(Forced, 0, 5) # S_ENVI

\* What follows the line ENVI
Body == SliceFrom(Forced, 5)

Has(s, c) == \E i \in 1..Len(s) : s[i] = c
First(s, c) == CHOOSE i \in 1..Len(s) : s[i] = c /\ \A j \in 1..(i - 1) : s[j] # c

\* The body is not empty and holds no '=' at all
NoEquals == ~MissingMagic /\ Body # <<>> /\ ~Has(Body, "=")

\* The value of the first entry, when it is a list: the text from its '{'
RECURSIVE SkipBlanks(_)
SkipBlanks(s) ==
    IF s # <<>> /\ Head(s) \in {" ", "\t"} THEN SkipBlanks(Tail(s)) ELSE s

FirstValue == SkipBlanks(SliceFrom(Body, First(Body, "=")))
FirstIsList ==
    /\ ~MissingMagic /\ Has(Body, "=")
    /\ FirstValue # <<>> /\ FirstValue[1] = "{"

\* The list's only '"' opens an element, before any '}'
UnclosedQuote ==
    /\ FirstIsList
    /\ Cardinality({i \in 1..Len(FirstValue) : FirstValue[i] = "\""}) = 1
    /\ Has(FirstValue, "}") => First(FirstValue, "\"") < First(FirstValue, "}")

\* No '}' follows the list's '{'
UnclosedList ==
    FirstIsList /\ ~Has(FirstValue, "\"") /\ ~Has(FirstValue, "}")

\* The list's '}' is not followed by a newline
BraceNotAtLineEnd ==
    /\ FirstIsList /\ ~Has(FirstValue, "\"") /\ Has(FirstValue, "}")
    /\ LET i == First(FirstValue, "}")
       IN  i = Len(FirstValue) \/ FirstValue[i + 1] # "\n"

\* C5: parse_envi_header fails with ParseError, and with no other failure and
\* no header, for every text that does not begin with the line ENVI, has an
\* entry with no '=', opens a '"' in a list and never closes it, or has a list
\* whose '}' is missing or is not followed by a newline.
C5_GrammarViolations ==
    (/\ parsed.called
     /\ \/ MissingMagic \/ NoEquals \/ UnclosedQuote \/ UnclosedList
        \/ BraceNotAtLineEnd) =>
        ~parsed.ok /\ parsed.error = "ParseError"

\* ------------------------------------------- claims on the header writer
\* The keys of the static type table
TableKeys == {field_types[i][1] : i \in 1..Len(field_types)}

\* The value read back is the value written: the same typed value, or the list
\* of the elements of the array written
Equivalent(written, read) ==
    \/ read = written
    \/ written.t = "ndarray" /\ read = PyList(written.v)

\* C3: the writer of write_envi serializes the header it is handed, whatever
\* typed values of the static type table it holds, and parse_envi_header of the
\* text written succeeds and gives the same keys, with an equivalent typed
\* value for every key of the table.
C3_HeaderRoundTrip ==
    wr.called =>
        /\ wr.ok \/ wr.error # "UnsupportedValue"
        /\ parsed.called =>
            /\ parsed.ok
            /\ parsed.value.keys = wr.header.keys
            /\ \A k \in TableKeys :
                DictHas(wr.header, k) =>
                    Equivalent(wr.header.at[k], parsed.value.at[k])

\* --------------------------------------------------- claims on the readers
\* The header file is there and parse_envi_header accepts its text
HeaderParses ==
    fs[S_hdr].exists /\ parse_envi_header(fs[S_hdr].content).ok

\* The first of .raw, .dat, .img (of .raw, .dat in an archive) that exists
FirstSibling ==
    IF fs[S_raw].exists THEN S_raw
    ELSE IF fs[S_dat].exists THEN S_dat
    ELSE IF fs[S_img].exists /\ rd.fn = "read_envi" THEN S_img
    ELSE "None"

\* C6: called with no data file on a header that parses, read_envi decodes the
\* first existing sibling among .raw, .dat, .img in that order, and fails with
\* MissingDataFile when there is none; read_zipped_envi does the same in the
\* archive with .raw then .dat only.
C6_ProbeOrder ==
    (rd.called /\ rd.data_file = "None" /\ HeaderParses) =>
        IF FirstSibling = "None"
        THEN ~rd.ok /\ rd.error = "MissingDataFile"
        ELSE /\ rd.used = FirstSibling
             /\ ~rd.ok => rd.error # "MissingDataFile"
             /\ (rd.ok /\ ~rd.normalize) =>
                    EncBytes(rd.cube) = fs[FirstSibling].content

\* read_envi found no .raw and read the .dat although an .img was there
C6_Witness ==
    /\ rd.called /\ rd.fn = "read_envi" /\ rd.data_file = "None"
    /\ ~fs[S_raw].exists /\ fs[S_dat].exists /\ fs[S_img].exists
    /\ rd.ok /\ ~rd.normalize
    /\ rd.used = S_dat
    /\ EncBytes(rd.cube) = fs[S_dat].content
====
